---- MODULE Spec2Model ----
(***************************************************************************)
(* gostlink: the ST-Link host driver.                                      *)
(*                                                                         *)
(* ReadMem / WriteMem (the alignment-aware chunk loops with their outer    *)
(* wait/backoff retry) and the wire primitives UsbReadMem8/16/32 and       *)
(* UsbWriteMem8/16/32 they call.  A public call runs as a stack of frames  *)
(* (ReadMem and WriteMem call themselves once, at unit 1, for a chunk that *)
(* is not a multiple of the unit); one action is one wire transfer with    *)
(* the status read that follows it, together with the handling of that     *)
(* status by the calling loop.                                             *)
(*                                                                         *)
(* The probe and the target are the environment: every transfer is         *)
(* answered by one of Responses, and the target memory is a byte map.      *)
(* Addresses and byte counts stay far below 2^31, so the uint32            *)
(* arithmetic of the source never wraps inside the model.                  *)
(*                                                                         *)
(* The calls outside the memory layer (usbOpenAp and the access-port step  *)
(* of NewStLink, GetRegisters / GetRegister, UsbInitMode, ConfigTrace) run *)
(* to their return in one action each: `sent` keeps the commands they      *)
(* submitted and `calls` what they returned.  Each group of calls has its  *)
(* own specification: SpecAp, SpecReg, SpecMode, SpecTrace.                *)
(***************************************************************************)
EXTENDS Integers, Sequences, FiniteSets, TLC

VARIABLES
    version,         \* h.version: [stlink, mem16]
    max_mem_packet,  \* h.max_mem_packet
    mem,             \* target memory: the bytes written so far, by address
    stack,           \* frames of the running ReadMem / WriteMem call
    wire,            \* memory commands submitted by the current call
    sleeps,          \* time.Sleep calls of the current call
    out,             \* the caller's bytes.Buffer of a read
    inbuf,           \* the caller's []byte of a write
    result,          \* error returned by the last finished call
    phase,           \* "idle" | "run" | "done"
    nonOk,           \* [wait, err]: non-OK answers of the probe in this call
    budget,          \* [wait, err]: most non-OK answers it gives in this call
    call,            \* the public call: [fn, addr, unit, count, rt]
    flags,           \* h.version.flags of every handle: [apInit]
    openedAp,        \* the package-level bitmap openedAp: the bits that are set
    sent,            \* commands submitted outside the memory layer
    calls            \* the finished calls outside the memory layer

memVars == <<version, max_mem_packet, mem, stack, wire, sleeps, out, inbuf,
             result, phase, nonOk, budget, call>>
\* the state outside the memory layer
otherVars == <<flags, openedAp, sent, calls>>
vars == <<memVars, otherVars>>

----------------------------------------------------------------------------
(* Bounds of the model *)

\* most target-wait answers of the probe within one call
MaxWait == 9
\* most fault and USB error answers of the probe within one call (a fault
\* ends the call; a gousb.TransferStatus is retried by WriteMem)
MaxErr == 1
\* start addresses lie up to MaxOff bytes below an auto-increment page end
MaxOff == 4
\* small element counts 0..MaxCount
MaxCount == 3
\* direct 16/32-bit requests have lengths 0..MaxLen
MaxLen == 5

----------------------------------------------------------------------------
(* Program constants *)

maximumWaitRetries == 8
maxReadWrite8 == 64
v3MaxReadWrite8 == 512
Memory8BitBlock == 1
Memory16BitBlock == 2
Memory32BitBlock == 4
usbErrorWait == "wait"

debugReadMem8Bit == "READ_MEM_8BIT"
debugApiV2ReadMem16Bit == "READ_MEM_16BIT"
debugReadMem32Bit == "READ_MEM_32BIT"
debugWriteMem8Bit == "WRITE_MEM_8BIT"
debugApiV2WriteMem16Bit == "WRITE_MEM_16BIT"
debugWriteMem32Bit == "WRITE_MEM_32BIT"

ReadCmds == {debugReadMem8Bit, debugApiV2ReadMem16Bit, debugReadMem32Bit}
WriteCmds == {debugWriteMem8Bit, debugApiV2WriteMem16Bit, debugWriteMem32Bit}

----------------------------------------------------------------------------
(* Environment: probe generations, target memory, probe answers *)

\* generation and MEM16 capability (V2 from JTAG rev 26, and V3)
Versions ==
    { [stlink |-> 1, mem16 |-> FALSE], [stlink |-> 2, mem16 |-> FALSE],
      [stlink |-> 2, mem16 |-> TRUE],  [stlink |-> 3, mem16 |-> TRUE] }

\* NewStLink: 1 << 10, widened to 1 << 12 for Cortex-M3/M4
MemPacketLimits == {1024, 4096}

AddrBase == 2^29

\* content of the target memory before any write
InitByte(a) == a % 251

MemAt(a) == IF a \in DOMAIN mem THEN mem[a] ELSE InitByte(a)

\* what the probe puts in the pad byte of a 2-byte reply to a 1-byte read
JunkBytes == {170}

\* "xfer": a gousb.TransferStatus error; "io": any other USB error
AllResponses == {"ok", "wait", "fault", "xfer", "io"}
ErrResponses == {"fault", "xfer", "io"}
Responses ==
    {"ok"} \cup (IF nonOk.wait < budget.wait THEN {"wait"} ELSE {})
           \cup (IF nonOk.err < budget.err THEN ErrResponses ELSE {})
NoFaults == [wait |-> 0, err |-> 0]
Faults == [wait |-> MaxWait, err |-> MaxErr]

Min(a, b) == IF a < b THEN a ELSE b
U16(x) == x % 65536

Cmd(c, a, l, st) == [cmd |-> c, addr |-> a, len |-> l, st |-> st]

----------------------------------------------------------------------------
(* Helpers of the handle *)

usbBlock == IF version.stlink = 3 THEN v3MaxReadWrite8 ELSE maxReadWrite8

maxBlockSize(tarAutoIncrBlock, address) ==
    tarAutoIncrBlock - (address % tarAutoIncrBlock)

\* GET_RW_STATUS after a transfer: nil, or a *usbError with the status' code
usbGetReadWriteStatus(st) ==
    CASE st = "ok" -> "nil"
      [] st = "wait" -> usbErrorWait
      [] st = "fault" -> "fault"

\* ctx.DataBytes(): the whole reply of readLen bytes; the probe sends the
\* target bytes whatever status it reports afterwards
DataBytes(addr, len, readLen, junk) ==
    [i \in 1..readLen |-> IF i <= len THEN MemAt(addr + i - 1) ELSE junk]

USBERR(st) == st \in {"xfer", "io"}

----------------------------------------------------------------------------
(* Wire primitives: [wire, data, err] for the answer st of the probe *)

UsbReadMem8(addr, len, st, junk) ==
    IF len > usbBlock
    THEN [wire |-> <<>>, data |-> <<>>, err |-> "fail"]
    ELSE LET readLen == IF len = 1 THEN len + 1 ELSE len
             w == <<Cmd(debugReadMem8Bit, addr, len, st)>>
         IN  IF USBERR(st)
             THEN [wire |-> w, data |-> <<>>, err |-> "fail"]
             ELSE [wire |-> w, data |-> DataBytes(addr, len, readLen, junk),
                   err |-> usbGetReadWriteStatus(st)]

Mem16Supported == version.mem16

\* mutant: only the length is checked
AlignedLenOnly(addr, len, n) == len % n = 0

Aligned(addr, len, n) == (len % n = 0) /\ (addr % n = 0)

UsbReadMem16(addr, len, st) ==
    IF ~Mem16Supported
    THEN [wire |-> <<>>, data |-> <<>>, err |-> "notfound"]
    ELSE IF ~Aligned(addr, len, 2)
    THEN [wire |-> <<>>, data |-> <<>>, err |-> "unaligned"]
    ELSE LET w == <<Cmd(debugApiV2ReadMem16Bit, addr, len, st)>>
         IN  IF USBERR(st)
             THEN [wire |-> w, data |-> <<>>, err |-> "fail"]
             ELSE [wire |-> w, data |-> DataBytes(addr, len, len, 0),
                   err |-> usbGetReadWriteStatus(st)]

UsbReadMem32(addr, len, st) ==
    IF ~Aligned(addr, len, 4)
    THEN [wire |-> <<>>, data |-> <<>>, err |-> "unaligned"]
    ELSE LET w == <<Cmd(debugReadMem32Bit, addr, len, st)>>
         IN  IF USBERR(st)
             THEN [wire |-> w, data |-> <<>>, err |-> "fail"]
             ELSE [wire |-> w, data |-> DataBytes(addr, len, len, 0),
                   err |-> usbGetReadWriteStatus(st)]

\* writes: err is the raw USB error (st) when the transfer itself fails;
\* done says whether buffer[:len] reached the target memory
UsbWriteMem8(addr, len, st) ==
    IF len > usbBlock
    THEN [wire |-> <<>>, done |-> FALSE, err |-> "fail"]
    ELSE LET w == <<Cmd(debugWriteMem8Bit, addr, len, st)>>
         IN  IF USBERR(st)
             THEN [wire |-> w, done |-> FALSE, err |-> st]
             ELSE [wire |-> w, done |-> (st = "ok"),
                   err |-> usbGetReadWriteStatus(st)]

UsbWriteMem16(addr, len, st) ==
    IF ~Mem16Supported
    THEN [wire |-> <<>>, done |-> FALSE, err |-> "notfound"]
    ELSE IF ~Aligned(addr, len, 2)
    THEN [wire |-> <<>>, done |-> FALSE, err |-> "unaligned"]
    ELSE LET w == <<Cmd(debugApiV2WriteMem16Bit, addr, len, st)>>
         IN  IF USBERR(st)
             THEN [wire |-> w, done |-> FALSE, err |-> st]
             ELSE [wire |-> w, done |-> (st = "ok"),
                   err |-> usbGetReadWriteStatus(st)]

UsbWriteMem32(addr, len, st) ==
    IF ~Aligned(addr, len, 4)
    THEN [wire |-> <<>>, done |-> FALSE, err |-> "unaligned"]
    ELSE LET w == <<Cmd(debugWriteMem32Bit, addr, len, st)>>
         IN  IF USBERR(st)
             THEN [wire |-> w, done |-> FALSE, err |-> st]
             ELSE [wire |-> w, done |-> (st = "ok"),
                   err |-> usbGetReadWriteStatus(st)]

----------------------------------------------------------------------------
(* Frames of ReadMem / WriteMem *)

\* the locals of one invocation; base is the offset of its buffer argument
\* in the caller's []byte (a write passes buffer[bufferPos:] down)
Frame(fn, addr, bitLength, count, base) ==
    [fn |-> fn, addr |-> addr, bitLength |-> bitLength, count |-> count,
     retries |-> 0, bufferPos |-> 0, bytesRemaining |-> 0, base |-> base,
     retErr |-> "nil", pc |-> "loop"]

Top == stack[Len(stack)]
SetTop(f) == [stack EXCEPT ![Len(stack)] = f]

\* mutant: the unit is kept whatever the probe supports
EffectiveBitsKeep(bitLength) == bitLength

\* switch to 8 bit if the stlink does not support 16 bit memory access
EffectiveBits(bitLength) ==
    IF bitLength = Memory16BitBlock /\ ~Mem16Supported
    THEN Memory8BitBlock ELSE bitLength

\* entry of ReadMem / WriteMem: count *= bitLength, then the downgrade
Enter(fn, addr, bitLength, count, base) ==
    Frame(fn, addr, EffectiveBits(bitLength), count * bitLength, base)

\* mutant: the chunk is everything that is left
ChunkBytesNoLimit(bitLength, addr, count) == count

\* mutant: every unit is limited by the probe block, none by the page
ChunkBytesBlockOnly(bitLength, addr, count) ==
    IF count < usbBlock THEN count ELSE usbBlock

\* top of the chunk loop: the bytes of this chunk
ChunkBytes(bitLength, addr, count) ==
    LET bytesRemaining ==
            IF bitLength # Memory8BitBlock
            THEN maxBlockSize(max_mem_packet, addr)
            ELSE usbBlock
    IN  IF count < bytesRemaining THEN count ELSE bytesRemaining

Unaligned(f) == (f.addr % f.bitLength) > 0
\* mutant: the misalignment itself instead of the bytes up to the boundary
HeadBytesMisalign(f) == f.addr % f.bitLength

HeadBytes(f) == f.bitLength - (f.addr % f.bitLength)

\* the frame is at the top of its loop with bytes left
AtLoop(f) == f.pc = "loop" /\ f.count > 0
\* the frame is about to issue the main transfer of a chunk
AtBody(f) ==
    IF f.pc = "loop"
    THEN f.count > 0 /\ (f.bitLength = Memory8BitBlock \/ ~Unaligned(f))
    ELSE f.pc = "body"
BodyBytes(f) ==
    IF f.pc = "body" THEN f.bytesRemaining
    ELSE ChunkBytes(f.bitLength, f.addr, f.count)
\* the frame has left its loop
AtReturn(f) ==
    IF f.pc = "loop" THEN f.count = 0 ELSE f.pc = "ret"

\* time.Sleep(sleepDur * 1000000) with sleepDur = 1 << retries, in ms; k is
\* the retry count of the invocation (at stack depth `depth`) that sleeps
Sleep(retries, err, depth) ==
    [ms |-> 2^retries, k |-> retries, depth |-> depth, after |-> err]

\* mutant: every error is retried while retries < maximumWaitRetries
ReadMemRetriesAnyError(err, retries) == retries < maximumWaitRetries

\* ReadMem, on an error of the head or of the main transfer: a wait is
\* retried while retries < maximumWaitRetries, anything else is returned
ReadMemRetries(err, retries) ==
    err = usbErrorWait /\ retries < maximumWaitRetries

ReadMemOnError(f, err) ==
    IF ReadMemRetries(err, f.retries)
    THEN [f EXCEPT !.retries = @ + 1, !.pc = "loop"]
    ELSE [f EXCEPT !.retErr = err, !.pc = "ret"]

\* mutant: the address is not advanced past the head
HeadDoneNoAddr(f, bytesRemaining) ==
    [f EXCEPT !.bufferPos = @ + HeadBytes(f), !.count = @ - HeadBytes(f),
              !.bytesRemaining = bytesRemaining - HeadBytes(f),
              !.pc = "body"]

\* the head transfer succeeded
HeadDone(f, bytesRemaining) ==
    [f EXCEPT !.bufferPos = @ + HeadBytes(f), !.addr = @ + HeadBytes(f),
              !.count = @ - HeadBytes(f),
              !.bytesRemaining = bytesRemaining - HeadBytes(f),
              !.pc = "body"]

\* the main transfer (or the nested call) of a chunk succeeded
ChunkDone(f, bytesRemaining) ==
    [f EXCEPT !.bufferPos = @ + bytesRemaining, !.addr = @ + bytesRemaining,
              !.count = @ - bytesRemaining, !.retErr = "nil", !.pc = "loop"]

\* ReadMem after the main transfer or the nested call returned err
ReadMemAfter(f, bytesRemaining, err) ==
    IF err # "nil" THEN ReadMemOnError([f EXCEPT !.retErr = err], err)
    ELSE ChunkDone(f, bytesRemaining)

\* the sleeps after frame f (at stack depth `depth`) became g
SleepsAfter(f, g, err, depth) ==
    IF g.retries > f.retries
    THEN Append(sleeps, Sleep(f.retries, err, depth))
    ELSE sleeps

Answered(st) ==
    [wait |-> nonOk.wait + (IF st = "wait" THEN 1 ELSE 0),
     err |-> nonOk.err + (IF st \in ErrResponses THEN 1 ELSE 0)]

----------------------------------------------------------------------------
(* ReadMem *)

Running(fn) == phase = "run" /\ stack # <<>> /\ Top.fn = fn

\* the unaligned head of a chunk: usbReadMem8 of headBytes
ReadMemHead ==
    /\ Running("ReadMem") /\ AtLoop(Top)
    /\ Top.bitLength # Memory8BitBlock /\ Unaligned(Top)
    /\ \E st \in Responses, junk \in JunkBytes :
         LET f == Top
             bytesRemaining == ChunkBytes(f.bitLength, f.addr, f.count)
             r == UsbReadMem8(f.addr, U16(HeadBytes(f)), st, junk)
             g == IF r.err # "nil" THEN ReadMemOnError(f, r.err)
                  ELSE HeadDone(f, bytesRemaining)
         IN  /\ stack' = SetTop(g)
             /\ wire' = wire \o r.wire
             /\ out' = out \o r.data
             /\ sleeps' = SleepsAfter(f, g, r.err, Len(stack))
             /\ nonOk' = Answered(st)
    /\ UNCHANGED otherVars
    /\ UNCHANGED <<version, max_mem_packet, mem, inbuf, result, phase,
                   budget, call>>

\* a chunk that is not a multiple of the unit: ReadMem(addr, 1, bytesRemaining)
ReadMemRecurse ==
    /\ Running("ReadMem") /\ AtBody(Top)
    /\ Top.bitLength # Memory8BitBlock
    /\ BodyBytes(Top) % Top.bitLength > 0
    /\ stack' = Append(SetTop([Top EXCEPT !.bytesRemaining = BodyBytes(Top),
                                          !.pc = "call"]),
                       Enter("ReadMem", Top.addr, 1, BodyBytes(Top), 0))
    /\ UNCHANGED otherVars
    /\ UNCHANGED <<version, max_mem_packet, mem, wire, sleeps, out, inbuf,
                   result, phase, nonOk, budget, call>>

ReadMemXfer(f, len, st, junk) ==
    IF f.bitLength = Memory8BitBlock THEN UsbReadMem8(f.addr, len, st, junk)
    ELSE IF f.bitLength = Memory16BitBlock THEN UsbReadMem16(f.addr, len, st)
    ELSE UsbReadMem32(f.addr, len, st)

\* the main transfer of a chunk, and the handling of its error
ReadMemBody ==
    /\ Running("ReadMem") /\ AtBody(Top)
    /\ (Top.bitLength = Memory8BitBlock \/ BodyBytes(Top) % Top.bitLength = 0)
    /\ \E st \in Responses, junk \in JunkBytes :
         LET f == Top
             bytesRemaining == BodyBytes(f)
             r == ReadMemXfer(f, U16(bytesRemaining), st, junk)
             g == ReadMemAfter(f, bytesRemaining, r.err)
         IN  /\ stack' = SetTop(g)
             /\ wire' = wire \o r.wire
             /\ out' = out \o r.data
             /\ sleeps' = SleepsAfter(f, g, r.err, Len(stack))
             /\ nonOk' = Answered(st)
    /\ UNCHANGED otherVars
    /\ UNCHANGED <<version, max_mem_packet, mem, inbuf, result, phase,
                   budget, call>>

\* return of an invocation: to the caller, or into the chunk loop of the
\* invocation that made the nested call
ReadMemReturn ==
    /\ Running("ReadMem") /\ AtReturn(Top)
    /\ IF Len(stack) = 1
       THEN /\ stack' = <<>>
            /\ result' = Top.retErr
            /\ phase' = "done"
            /\ sleeps' = sleeps
       ELSE LET f == stack[Len(stack) - 1]
                g == ReadMemAfter(f, f.bytesRemaining, Top.retErr)
            IN  /\ stack' = [SubSeq(stack, 1, Len(stack) - 1)
                                EXCEPT ![Len(stack) - 1] = g]
                /\ sleeps' = SleepsAfter(f, g, Top.retErr, Len(stack) - 1)
                /\ UNCHANGED <<result, phase>>
    /\ UNCHANGED otherVars
    /\ UNCHANGED <<version, max_mem_packet, mem, wire, out, inbuf, nonOk,
                   budget, call>>

----------------------------------------------------------------------------
(* WriteMem *)

\* buffer[off : off+len] of the caller's []byte stored at addr
Store(addr, len, off) ==
    [a \in DOMAIN mem \cup (addr .. addr + len - 1) |->
        IF a \in addr .. addr + len - 1
        THEN inbuf[off + (a - addr) + 1] ELSE mem[a]]

\* offset in the caller's []byte of the slice handed to the head transfer:
\* usbWriteMem8(address, headBytes, buffer)
HeadSrc(f) == f.base

\* offset of the slice handed to the main transfer: buffer for the 8-bit
\* write, buffer[bufferPos:] for the 16- and 32-bit writes
BodySrc(f) ==
    IF f.bitLength = Memory8BitBlock THEN f.base ELSE f.base + f.bufferPos

\* offset of the slice handed to the nested call: buffer[bufferPos:]
NestedSrc(f) == f.base + f.bufferPos

\* WriteMem, on an error of the head transfer: err.(*usbError) panics on an
\* error of another type
WriteMemHeadPanics(err) == USBERR(err)

\* WriteMem, on an error of the head transfer of the right type
WriteMemHeadOnError(f, err) ==
    IF err = usbErrorWait /\ f.retries < maximumWaitRetries
    THEN [f EXCEPT !.retries = @ + 1, !.pc = "loop"]
    ELSE [f EXCEPT !.retErr = err, !.pc = "ret"]

\* WriteMem, on an error of the main transfer or of the nested call: a
\* gousb.TransferStatus is always retried, a wait *usbError is retried
\* while retries < maximumWaitRetries, anything else is returned
WriteMemOnError(f, err) ==
    IF err = "xfer"
    THEN [f EXCEPT !.retries = @ + 1, !.pc = "loop"]
    ELSE IF err = usbErrorWait /\ f.retries < maximumWaitRetries
    THEN [f EXCEPT !.retries = @ + 1, !.pc = "loop"]
    ELSE [f EXCEPT !.retErr = err, !.pc = "ret"]

WriteMemAfter(f, bytesRemaining, err) ==
    IF err # "nil" THEN WriteMemOnError([f EXCEPT !.retErr = err], err)
    ELSE ChunkDone(f, bytesRemaining)

\* the unaligned head of a chunk: usbWriteMem8 of headBytes
WriteMemHead ==
    /\ Running("WriteMem") /\ AtLoop(Top)
    /\ Top.bitLength # Memory8BitBlock /\ Unaligned(Top)
    /\ \E st \in Responses :
         LET f == Top
             bytesRemaining == ChunkBytes(f.bitLength, f.addr, f.count)
             r == UsbWriteMem8(f.addr, U16(HeadBytes(f)), st)
             g == IF r.err # "nil" THEN WriteMemHeadOnError(f, r.err)
                  ELSE HeadDone(f, bytesRemaining)
         IN  /\ wire' = wire \o r.wire
             /\ nonOk' = Answered(st)
             /\ mem' = IF r.done
                       THEN Store(f.addr, U16(HeadBytes(f)), HeadSrc(f))
                       ELSE mem
             /\ IF WriteMemHeadPanics(r.err)
                THEN /\ stack' = <<>>
                     /\ result' = "panic"
                     /\ phase' = "done"
                     /\ sleeps' = sleeps
                ELSE /\ stack' = SetTop(g)
                     /\ sleeps' = SleepsAfter(f, g, r.err, Len(stack))
                     /\ UNCHANGED <<result, phase>>
    /\ UNCHANGED otherVars
    /\ UNCHANGED <<version, max_mem_packet, out, inbuf, budget, call>>

\* a chunk that is not a multiple of the unit:
\* WriteMem(address, 1, bytesRemaining, buffer[bufferPos:])
WriteMemRecurse ==
    /\ Running("WriteMem") /\ AtBody(Top)
    /\ Top.bitLength # Memory8BitBlock
    /\ BodyBytes(Top) % Top.bitLength > 0
    /\ stack' = Append(SetTop([Top EXCEPT !.bytesRemaining = BodyBytes(Top),
                                          !.pc = "call"]),
                       Enter("WriteMem", Top.addr, 1, BodyBytes(Top),
                             NestedSrc(Top)))
    /\ UNCHANGED otherVars
    /\ UNCHANGED <<version, max_mem_packet, mem, wire, sleeps, out, inbuf,
                   result, phase, nonOk, budget, call>>

WriteMemXfer(f, len, st) ==
    IF f.bitLength = Memory8BitBlock THEN UsbWriteMem8(f.addr, len, st)
    ELSE IF f.bitLength = Memory16BitBlock THEN UsbWriteMem16(f.addr, len, st)
    ELSE UsbWriteMem32(f.addr, len, st)

\* the main transfer of a chunk, and the handling of its error
WriteMemBody ==
    /\ Running("WriteMem") /\ AtBody(Top)
    /\ (Top.bitLength = Memory8BitBlock \/ BodyBytes(Top) % Top.bitLength = 0)
    /\ \E st \in Responses :
         LET f == Top
             bytesRemaining == BodyBytes(f)
             r == WriteMemXfer(f, U16(bytesRemaining), st)
             g == WriteMemAfter(f, bytesRemaining, r.err)
         IN  /\ stack' = SetTop(g)
             /\ wire' = wire \o r.wire
             /\ mem' = IF r.done
                       THEN Store(f.addr, U16(bytesRemaining), BodySrc(f))
                       ELSE mem
             /\ sleeps' = SleepsAfter(f, g, r.err, Len(stack))
             /\ nonOk' = Answered(st)
    /\ UNCHANGED otherVars
    /\ UNCHANGED <<version, max_mem_packet, out, inbuf, result, phase,
                   budget, call>>

WriteMemReturn ==
    /\ Running("WriteMem") /\ AtReturn(Top)
    /\ IF Len(stack) = 1
       THEN /\ stack' = <<>>
            /\ result' = Top.retErr
            /\ phase' = "done"
            /\ sleeps' = sleeps
       ELSE LET f == stack[Len(stack) - 1]
                g == WriteMemAfter(f, f.bytesRemaining, Top.retErr)
            IN  /\ stack' = [SubSeq(stack, 1, Len(stack) - 1)
                                EXCEPT ![Len(stack) - 1] = g]
                /\ sleeps' = SleepsAfter(f, g, Top.retErr, Len(stack) - 1)
                /\ UNCHANGED <<result, phase>>
    /\ UNCHANGED otherVars
    /\ UNCHANGED <<version, max_mem_packet, mem, wire, out, inbuf, nonOk,
                   budget, call>>

----------------------------------------------------------------------------
(* Public calls *)

Units == {Memory8BitBlock, Memory16BitBlock, Memory32BitBlock}

\* start addresses: the SRAM base, aligned and not, and the last bytes
\* before (and the first byte of) a 1 KiB and a 4 KiB auto-increment page
PageAddrs == {AddrBase + p - o : p \in MemPacketLimits, o \in 0..MaxOff}
NearAddrs == {AddrBase + 992, AddrBase + 1008}
SmallAddrs == {AddrBase, AddrBase + 1} \cup PageAddrs \cup NearAddrs
SmallCounts == (0..MaxCount) \cup {10, 16}

\* transfers longer than a probe block and than an auto-increment page
BigAddrs == {AddrBase, AddrBase + 1}
BigCounts == {66, 257}

\* <<addr, unit, count>> of the calls that the probe answers with OK only
OkInputs ==
    (SmallAddrs \X Units \X SmallCounts) \cup (BigAddrs \X Units \X BigCounts)
    \cup {<<AddrBase, Memory32BitBlock, 1025>>}

\* the calls in which the probe may answer anything: one aligned chunk, a
\* head with an aligned chunk, a head with a nested call, 8-bit chunks
FaultInputs ==
    { <<AddrBase, Memory32BitBlock, 1>>, <<AddrBase + 1, Memory32BitBlock, 2>>,
      <<AddrBase + 1, Memory16BitBlock, 1>>, <<AddrBase + 1021, Memory32BitBlock, 1>>,
      <<AddrBase, Memory8BitBlock, 2>>, <<AddrBase, Memory16BitBlock, 2>> }

Inputs(b) == IF b = NoFaults THEN OkInputs ELSE FaultInputs

\* the []byte a caller hands to WriteMem: count * unit bytes
PatternBuf(n) == [i \in 1..n |-> (i * 7) % 256]

Begin(fn, in, b, rt) ==
    /\ stack' = <<Enter(fn, in[1], in[2], in[3], 0)>>
    /\ call' = [fn |-> fn, addr |-> in[1], unit |-> in[2], count |-> in[3],
                rt |-> rt]
    /\ phase' = "run"
    /\ result' = "none"
    /\ wire' = <<>>
    /\ sleeps' = <<>>
    /\ nonOk' = NoFaults
    /\ budget' = b

ReadMemCall ==
    /\ phase = "idle"
    /\ \E b \in {NoFaults, Faults} : \E in \in Inputs(b) :
         Begin("ReadMem", in, b, FALSE)
    /\ out' = <<>>
    /\ UNCHANGED otherVars
    /\ UNCHANGED <<version, max_mem_packet, mem, inbuf>>

WriteMemCall ==
    /\ phase = "idle"
    /\ \E b \in {NoFaults, Faults} : \E in \in Inputs(b) :
         /\ Begin("WriteMem", in, b, FALSE)
         /\ inbuf' = PatternBuf(in[2] * in[3])
    /\ UNCHANGED otherVars
    /\ UNCHANGED <<version, max_mem_packet, mem, out>>

\* WriteMem at the (addr, unit, count) of the ReadMem that just succeeded,
\* with the buffer that the read filled
WriteBackCall ==
    /\ phase = "done" /\ call.fn = "ReadMem" /\ result = "nil"
    /\ budget = NoFaults
    /\ Begin("WriteMem", <<call.addr, call.unit, call.count>>, budget, TRUE)
    /\ inbuf' = out
    /\ UNCHANGED otherVars
    /\ UNCHANGED <<version, max_mem_packet, mem, out>>

----------------------------------------------------------------------------
(* Direct 16- and 32-bit requests *)

DirectAddrs == {AddrBase, AddrBase + 1, AddrBase + 2}
DirectLens == 0..MaxLen

Direct(fn, addr, len, r) ==
    /\ phase = "idle"
    /\ call' = [fn |-> fn, addr |-> addr, unit |-> 0, count |-> len,
                rt |-> FALSE]
    /\ wire' = r.wire
    /\ result' = r.err
    /\ phase' = "done"
    /\ nonOk' = NoFaults
    /\ budget' = Faults
    /\ UNCHANGED otherVars
    /\ UNCHANGED <<version, max_mem_packet, stack, sleeps>>

UsbReadMem16Call ==
    \E addr \in DirectAddrs, len \in DirectLens, st \in AllResponses :
        LET r == UsbReadMem16(addr, len, st)
        IN  /\ Direct("UsbReadMem16", addr, len, r)
            /\ out' = r.data
            /\ UNCHANGED <<mem, inbuf>>

UsbReadMem32Call ==
    \E addr \in DirectAddrs, len \in DirectLens, st \in AllResponses :
        LET r == UsbReadMem32(addr, len, st)
        IN  /\ Direct("UsbReadMem32", addr, len, r)
            /\ out' = r.data
            /\ UNCHANGED <<mem, inbuf>>

UsbWriteMem16Call ==
    \E addr \in DirectAddrs, len \in DirectLens, st \in AllResponses :
        LET r == UsbWriteMem16(addr, len, st)
        IN  /\ Direct("UsbWriteMem16", addr, len, r)
            /\ inbuf' = PatternBuf(len)
            /\ mem' = IF r.done THEN
                        [a \in addr .. addr + len - 1 |->
                            PatternBuf(len)[a - addr + 1]]
                      ELSE mem
            /\ UNCHANGED out

UsbWriteMem32Call ==
    \E addr \in DirectAddrs, len \in DirectLens, st \in AllResponses :
        LET r == UsbWriteMem32(addr, len, st)
        IN  /\ Direct("UsbWriteMem32", addr, len, r)
            /\ inbuf' = PatternBuf(len)
            /\ mem' = IF r.done THEN
                        [a \in addr .. addr + len - 1 |->
                            PatternBuf(len)[a - addr + 1]]
                      ELSE mem
            /\ UNCHANGED out

----------------------------------------------------------------------------
(* Access ports *)

debugAccessPortSelectionMaximum == 255
debugApiV2InitAccessPort == "INIT_AP"

\* the handles of the process
Handles == {"A", "B"}

\* answers of the probe to a command whose reply is checked
CheckedAnswers == {"ok", "error"}

\* usbTransferErrCheck(ctx, 2): nil, or the error of the checked reply
usbTransferErrCheck(st) == IF st = "ok" THEN "nil" ELSE "error"

SentCmd(h, c, arg, st) == [h |-> h, cmd |-> c, arg |-> arg, st |-> st]

\* usbInitAccessPort(apNum) on handle h, the probe answering st
usbInitAccessPort(h, apNum, st) ==
    IF ~flags[h].apInit
    THEN [sent |-> <<>>, err |-> "could not find access port command"]
    ELSE [sent |-> <<SentCmd(h, debugApiV2InitAccessPort, apNum, st)>>,
          err |-> IF usbTransferErrCheck(st) # "nil"
                  THEN "could not init access port on device" ELSE "nil"]

\* mutant: the bit is never set
MarkOpenedNever(opened, apsel) == opened

\* openedAp.Set(int(apsel), true)
MarkOpened(opened, apsel) == opened \cup {apsel}

\* usbOpenAp(apsel) on handle h: [sent, err, opened]
usbOpenAp(h, apsel, st) ==
    IF ~flags[h].apInit
    THEN [sent |-> <<>>, err |-> "nil", opened |-> openedAp]
    ELSE IF apsel > debugAccessPortSelectionMaximum
    THEN [sent |-> <<>>, err |-> "apsel > DP_APSEL_MAX", opened |-> openedAp]
    ELSE IF apsel \in openedAp
    THEN [sent |-> <<>>, err |-> "nil", opened |-> openedAp]
    ELSE LET r == usbInitAccessPort(h, apsel % 256, st)
         IN  IF r.err # "nil"
             THEN [sent |-> r.sent, err |-> r.err, opened |-> openedAp]
             ELSE [sent |-> r.sent, err |-> "nil",
                   opened |-> MarkOpened(openedAp, apsel)]

\* most calls of usbOpenAp and NewStLink in a run
MaxApCalls == 3

Apsels == {0, 1, debugAccessPortSelectionMaximum + 1}

\* a finished call: n commands were submitted by it
Called(fn, h, arg, err, n) ==
    [fn |-> fn, h |-> h, arg |-> arg, err |-> err, n |-> n]

usbOpenApCall ==
    /\ Len(calls) < MaxApCalls
    /\ \E h \in Handles, apsel \in Apsels, st \in CheckedAnswers :
         LET r == usbOpenAp(h, apsel, st)
         IN  /\ (r.sent = <<>> => st = "ok")
             /\ sent' = sent \o r.sent
             /\ openedAp' = r.opened
             /\ calls' = Append(calls,
                     Called("usbOpenAp", h, apsel, r.err, Len(r.sent)))
    /\ UNCHANGED <<flags, memVars>>

\* NewStLink, from max_mem_packet = 1 << 10 on: the initialisation of access
\* port 0 on the new handle, and the return of the handle or of the error
NewStLinkCall ==
    /\ Len(calls) < MaxApCalls
    /\ \E h \in Handles, st \in CheckedAnswers :
         LET r == usbInitAccessPort(h, 0, st)
         IN  /\ (r.sent = <<>> => st = "ok")
             /\ sent' = sent \o r.sent
             /\ calls' = Append(calls,
                     Called("NewStLink", h, 0, r.err, Len(r.sent)))
    /\ UNCHANGED <<flags, openedAp, memVars>>

----------------------------------------------------------------------------
(* Modes *)

StLinkModeUnknown == "Unknown"
StLinkModeDfu == "Dfu"
StLinkModeMass == "Mass"
StLinkModeDebugJtag == "DebugJtag"
StLinkModeDebugSwd == "DebugSwd"
StLinkModeDebugSwim == "DebugSwim"
StLinkModes ==
    {StLinkModeUnknown, StLinkModeDfu, StLinkModeMass, StLinkModeDebugJtag,
     StLinkModeDebugSwd, StLinkModeDebugSwim}

jTagApiV1 == 1
jTagApiV2 == 2
jTagApiV3 == 3

\* answers of the probe to one submitted command: "wait" is a status that
\* only a checked exchange sees
Answers == {"ok", "wait", "error"}

\* the bytes of a command, by their names
Bytes(h, bytes, st) == SentCmd(h, bytes, 0, st)

\* usbTransferNoErrCheck: one exchange; [sent, err, used]
usbTransferNoErrCheck(h, bytes, a) ==
    LET st == IF a[1] = "ok" THEN "ok" ELSE "error"
    IN  [sent |-> <<Bytes(h, bytes, st)>>,
         err |-> IF st = "ok" THEN "nil" ELSE "error",
         used |-> 1]

\* usbCmdAllowRetry: a checked exchange that is submitted once more after a
\* target-wait, two attempts at most; [sent, err, used]
usbCmdAllowRetry(h, bytes, a) ==
    IF a[1] = "wait"
    THEN [sent |-> <<Bytes(h, bytes, a[1]), Bytes(h, bytes, a[2])>>,
          err |-> IF a[2] = "ok" THEN "nil" ELSE a[2],
          used |-> 2]
    ELSE [sent |-> <<Bytes(h, bytes, a[1])>>,
          err |-> IF a[1] = "ok" THEN "nil" ELSE a[1],
          used |-> 1]

Nothing(err) == [sent |-> <<>>, err |-> err, used |-> 0]

debugEnter(h) ==
    IF flags[h].jtagApi = jTagApiV1 THEN "ENTER_V1" ELSE "ENTER_V2"

\* UsbModeEnter(stMode) on handle h, with the answers a of the probe
UsbModeEnter(h, stMode, a) ==
    CASE stMode = StLinkModeDebugJtag ->
           usbCmdAllowRetry(h, <<"DEBUG", debugEnter(h), "JTAG_NO_RESET">>, a)
      [] stMode = StLinkModeDebugSwd ->
           usbCmdAllowRetry(h, <<"DEBUG", debugEnter(h), "SWD_NO_RESET">>, a)
      [] stMode = StLinkModeDebugSwim ->
           usbTransferNoErrCheck(h, <<"SWIM", "ENTER">>, a)
      [] stMode \in {StLinkModeDfu, StLinkModeMass} ->
           usbCmdAllowRetry(h, <<>>, a)
      [] OTHER ->
           Nothing("cannot set usb mode from DFU or mass stlink configuration")

\* mutant: the command is sent for a mode that cannot be left as well
UsbLeaveModeAlways(h, mode, a) ==
    usbTransferNoErrCheck(h, <<"DEBUG", "EXIT">>, a)

\* UsbLeaveMode(mode) on handle h
UsbLeaveMode(h, mode, a) ==
    CASE mode \in {StLinkModeDebugJtag, StLinkModeDebugSwd} ->
           usbTransferNoErrCheck(h, <<"DEBUG", "EXIT">>, a)
      [] mode = StLinkModeDebugSwim ->
           usbTransferNoErrCheck(h, <<"SWIM", "EXIT">>, a)
      [] mode = StLinkModeDfu ->
           usbTransferNoErrCheck(h, <<"DFU", "EXIT">>, a)
      [] mode = StLinkModeMass -> Nothing("cannot leave mass storage mode")
      [] OTHER -> Nothing("unknown stlink mode")

\* the answers from the k-th on
From(a, k) == SubSeq(a, k, Len(a))

\* the answers that no command consumed are "ok"
Consumed(a, r) == \A k \in 1..Len(a) : k > r.used => a[k] = "ok"

----------------------------------------------------------------------------
(* Registers *)

\* register transfer of GetRegisters / GetRegister, then the deferred
\* UsbLeaveMode; the error returned is that of the transfer
RegisterTransfer(h, bytes, a) ==
    LET t == usbTransferNoErrCheck(h, bytes, a)
        l == UsbLeaveMode(h, StLinkModeDebugSwd, From(a, t.used + 1))
    IN  [sent |-> t.sent \o l.sent, err |-> t.err, used |-> t.used + l.used]

\* GetRegisters / GetRegister on handle h: the commands and the error
GetRegs(h, bytes, a) ==
    LET e == UsbModeEnter(h, StLinkModeDebugSwd, a)
    IN  IF e.err # "nil" THEN e
        ELSE LET t == RegisterTransfer(h, bytes, From(a, e.used + 1))
             IN  [sent |-> e.sent \o t.sent, err |-> t.err,
                  used |-> e.used + t.used]

\* most calls of GetRegisters and GetRegister in a run
MaxRegCalls == 2

Registers == {0, 15}

\* at most four commands in a call: two mode entries, transfer, leave
RegAnswers == [1..4 -> Answers]

GetRegistersCall ==
    /\ Len(calls) < MaxRegCalls
    /\ \E h \in DOMAIN flags, a \in RegAnswers :
         LET r == GetRegs(h, <<"DEBUG", "READ_ALL_REGS">>, a)
         IN  /\ Consumed(a, r)
             /\ sent' = sent \o r.sent
             /\ calls' = Append(calls,
                     Called("GetRegisters", h, 0, r.err, Len(r.sent)))
    /\ UNCHANGED <<flags, openedAp, memVars>>

GetRegisterCall ==
    /\ Len(calls) < MaxRegCalls
    /\ \E h \in DOMAIN flags, register \in Registers, a \in RegAnswers :
         LET r == GetRegs(h, <<"DEBUG", "READ_REG", register>>, a)
         IN  /\ Consumed(a, r)
             /\ sent' = sent \o r.sent
             /\ calls' = Append(calls,
                     Called("GetRegister", h, register, r.err, Len(r.sent)))
    /\ UNCHANGED <<flags, openedAp, memVars>>

----------------------------------------------------------------------------
(* UsbInitMode *)

deviceModeDFU == "DFU"
deviceModeMass == "MASS"
deviceModeDebug == "DEBUG"
deviceModeSwim == "SWIM"
deviceModeBootloader == "BOOTLOADER"
\* the mode bytes that the probe reports; "OTHER" is any other byte
DeviceModes ==
    {deviceModeDFU, deviceModeMass, deviceModeDebug, deviceModeSwim,
     deviceModeBootloader, "OTHER"}

cmdGetCurrentMode == "GET_CURRENT_MODE"
cmdGetTargetVoltage == "GET_TARGET_VOLTAGE"

\* one more step of a call: [sent, err, used] after r was done behind acc
Do(acc, r) ==
    [sent |-> acc.sent \o r.sent, err |-> r.err, used |-> acc.used + r.used]

\* the answers that are left after acc
Rest(a, acc) == From(a, acc.used + 1)

\* UsbCurrentMode: the query, the probe reporting `mode`
UsbCurrentMode(h, a, mode) ==
    LET t == usbTransferNoErrCheck(h, <<cmdGetCurrentMode>>, a)
    IN  [sent |-> <<[t.sent[1] EXCEPT !.arg = IF t.err = "nil" THEN mode ELSE 0]>>,
         err |-> t.err, used |-> t.used]

\* UsbInitMode: the switch from the reported mode byte to the StLinkMode
ModeOfByte(mode) ==
    CASE mode = deviceModeDFU -> StLinkModeDfu
      [] mode = deviceModeDebug -> StLinkModeDebugSwd
      [] mode = deviceModeSwim -> StLinkModeDebugSwim
      [] mode = deviceModeMass -> StLinkModeMass
      [] mode = deviceModeBootloader -> StLinkModeUnknown
      [] OTHER -> StLinkModeUnknown

GetTargetVoltage(h, a) ==
    IF ~flags[h].targetVolt
    THEN Nothing("device does not support voltage measurement")
    ELSE usbTransferNoErrCheck(h, <<cmdGetTargetVoltage>>, a)

\* setSpeedSwd, setSpeedV3, usbGetComFreq, usbAssertSrst: one exchange each
setSpeedSwd(h, a) == usbTransferNoErrCheck(h, <<"DEBUG", "SWD_SET_FREQ">>, a)
setSpeedV3(h, a) == usbTransferNoErrCheck(h, <<"DEBUG", "SET_COM_FREQ">>, a)
usbGetComFreq(h, a) == usbTransferNoErrCheck(h, <<"DEBUG", "GET_COM_FREQ">>, a)
usbAssertSrst(h, a) == usbTransferNoErrCheck(h, <<"DEBUG", "DRIVE_NRST">>, a)

\* SetSpeed with h.stMode = stMode
SetSpeed(h, stMode, a) ==
    IF stMode = StLinkModeDebugSwd
    THEN IF flags[h].jtagApi = jTagApiV3 THEN setSpeedV3(h, a)
         ELSE setSpeedSwd(h, a)
    ELSE Nothing("requested ST-Link mode not supported yet")

\* UsbInitMode, from the speed setting to the mode entry
SpeedSteps(h, stMode, connectUnderReset, a) ==
    LET s1 == IF stMode \in {StLinkModeDebugJtag, StLinkModeDebugSwd}
                 /\ flags[h].jtagSetFreq
              THEN SetSpeed(h, stMode, a) ELSE Nothing("nil")
        s2 == IF flags[h].jtagApi = jTagApiV3
              THEN Do(s1, usbGetComFreq(h, Rest(a, s1))) ELSE s1
        s3 == IF flags[h].jtagApi = jTagApiV3
              THEN Do(s2, SetSpeed(h, stMode, Rest(a, s2))) ELSE s2
    IN  IF connectUnderReset /\ stMode # StLinkModeDebugSwim
        THEN Do(s3, usbAssertSrst(h, Rest(a, s3))) ELSE s3

\* mutant: the mode is entered although the mode entry failed
EnterFailedGoesOn(err) == FALSE

\* UsbInitMode returns the error of UsbModeEnter
EnterFailed(err) == err # "nil"

\* UsbInitMode, from the mode entry on
EnterSteps(h, stMode, connectUnderReset, m3, a) ==
    LET e == UsbModeEnter(h, stMode, a)
    IN  IF EnterFailed(e.err) THEN e
        ELSE LET r == IF connectUnderReset
                      THEN Do(e, usbAssertSrst(h, Rest(a, e))) ELSE e
             IN  IF r.err # "nil" THEN r
                 ELSE Do(r, UsbCurrentMode(h, Rest(a, r), m3))

\* UsbInitMode(connectUnderReset, ...) with h.stMode = stMode; the probe
\* reports the modes m[1], m[2], m[3] and gives the answers a
UsbInitMode(h, stMode, connectUnderReset, m, a) ==
    LET q1 == UsbCurrentMode(h, a, m[1])
        stLinkMode == ModeOfByte(m[1])
        l == IF stLinkMode # StLinkModeUnknown
             THEN Do(q1, UsbLeaveMode(h, stLinkMode, Rest(a, q1))) ELSE q1
        q2 == Do(l, UsbCurrentMode(h, Rest(a, l), m[2]))
        v == IF m[2] # deviceModeDFU
             THEN Do(q2, GetTargetVoltage(h, Rest(a, q2))) ELSE q2
        s == Do(v, SpeedSteps(h, stMode, connectUnderReset, Rest(a, v)))
    IN  IF q1.err # "nil" THEN q1
        ELSE IF q2.err # "nil" THEN q2
        ELSE IF stMode = StLinkModeUnknown
        THEN [v EXCEPT !.err = "selected mode (transport) not supported"]
        ELSE Do(s, EnterSteps(h, stMode, connectUnderReset, m[3], Rest(a, s)))

\* most answers of the probe in a run of UsbInitMode that are not "ok"
MaxInitErrors == 1

\* a run of UsbInitMode submits at most 12 commands
InitCmds == 1..12

\* the answers to the commands of a run, at most MaxInitErrors not "ok"
InitAnswers ==
    { [k \in InitCmds |-> IF k \in E THEN x ELSE "ok"] :
        E \in {E \in SUBSET InitCmds : Cardinality(E) <= MaxInitErrors},
        x \in {"wait", "error"} }

\* the modes that the probe reports to the three queries of a run
ReportedModes == DeviceModes \X {deviceModeDFU, deviceModeDebug} \X {deviceModeDebug}

UsbInitModeCall ==
    /\ calls = <<>>
    /\ \E h \in DOMAIN flags, stMode \in StLinkModes,
          connectUnderReset \in BOOLEAN, m \in ReportedModes,
          a \in InitAnswers :
         LET r == UsbInitMode(h, stMode, connectUnderReset, m, a)
         IN  /\ Consumed(a, r)
             /\ sent' = sent \o r.sent
             /\ calls' = Append(calls,
                     Called("UsbInitMode", h,
                            [stMode |-> stMode,
                             connectUnderReset |-> connectUnderReset],
                            r.err, Len(r.sent)))
    /\ UNCHANGED <<flags, openedAp, memVars>>

----------------------------------------------------------------------------
(* ConfigTrace *)

traceMaxHz == 2000000
tpuiAcprMaxSwoScaler == 65535
TpuiPinProtocolAsyncUart == "AsyncUart"
TpuiPinProtocols == {TpuiPinProtocolAsyncUart, "Manchester"}

\* usbTraceDisable, usbTraceEnable: one exchange each
usbTraceDisable(h, a) == usbTransferNoErrCheck(h, <<"DEBUG", "STOP_TRACE">>, a)
usbTraceEnable(h, a) == usbTransferNoErrCheck(h, <<"DEBUG", "START_TRACE">>, a)

\* presc := uint16(traceClkInFreq / *traceFreq), and presc++ on a remainder
Presc(traceClkInFreq, traceFreq) ==
    LET presc == U16(traceClkInFreq \div traceFreq)
    IN  IF (traceClkInFreq % traceFreq) > 0 THEN U16(presc + 1) ELSE presc

\* what ConfigTrace leaves: the commands, the error, *traceFreq, *preScaler
Traced(r, err, traceFreq, preScaler) ==
    [sent |-> r.sent, err |-> err, used |-> r.used,
     traceFreq |-> traceFreq, preScaler |-> preScaler]

\* ConfigTrace on handle h; preScaler is the caller's value before the call
ConfigTrace(h, enabled, tpiuProtocol, traceFreq, traceClkInFreq, preScaler, a) ==
    IF enabled /\ (~flags[h].trace \/ tpiuProtocol # TpuiPinProtocolAsyncUart)
    THEN Traced(Nothing("nil"),
                "the attached ST-Link version does not support this trace mode",
                traceFreq, preScaler)
    ELSE IF ~enabled
    THEN Traced(usbTraceDisable(h, a), "nil", traceFreq, preScaler)
    ELSE IF traceFreq > traceMaxHz
    THEN Traced(Nothing("nil"),
                "this ST-Link version does not support frequency",
                traceFreq, preScaler)
    ELSE LET d == usbTraceDisable(h, a)
             freq == IF traceFreq = 0 THEN traceMaxHz ELSE traceFreq
             presc == Presc(traceClkInFreq, freq)
             e == Do(d, usbTraceEnable(h, Rest(a, d)))
         IN  IF presc > tpuiAcprMaxSwoScaler
             THEN Traced(d, "SWO frequency is not suitable", freq, preScaler)
             ELSE Traced(e, e.err, freq, presc)

\* trace frequencies up to MaxHz, and the limit and the first beyond it
MaxHz == 3
TraceFreqs == (0..MaxHz) \cup {1000, traceMaxHz, traceMaxHz + 1}

\* trace clocks around the multiples of 2^16, and clocks of a target
ClkInFreqs ==
    {k * 65536 + d : k \in 0..2, d \in {0, 1, 65535}}
        \cup {16000000, 72000000, 2147483647}

\* the caller's preScaler before the call
preScalerBefore == 7

ConfigTraceCall ==
    /\ calls = <<>>
    /\ \E h \in DOMAIN flags, enabled \in BOOLEAN,
          tpiuProtocol \in TpuiPinProtocols, traceFreq \in TraceFreqs,
          traceClkInFreq \in ClkInFreqs, a \in [1..2 -> {"ok", "error"}] :
         LET r == ConfigTrace(h, enabled, tpiuProtocol, traceFreq,
                              traceClkInFreq, preScalerBefore, a)
         IN  /\ Consumed(a, r)
             /\ sent' = sent \o r.sent
             /\ calls' = Append(calls,
                     Called("ConfigTrace", h,
                            [enabled |-> enabled, tpiuProtocol |-> tpiuProtocol,
                             traceFreqIn |-> traceFreq,
                             traceClkInFreq |-> traceClkInFreq,
                             traceFreq |-> r.traceFreq,
                             preScaler |-> r.preScaler],
                            r.err, Len(r.sent)))
    /\ UNCHANGED <<flags, openedAp, memVars>>

----------------------------------------------------------------------------
(* Probe selection *)

\* NewStLink, the choice among the devices that usbFindDevices returned:
\* devices is the sequence of their serial numbers; dev is the index of
\* handle.usbDevice, 0 for nil
SelectDevice(devices, serial) ==
    IF Len(devices) > 0
    THEN IF serial = "" /\ Len(devices) > 1
         THEN [dev |-> 0, err |-> "could not identity exact stlink by given parameters"]
         ELSE LET dev ==
                    IF Len(devices) = 1 THEN 1
                    ELSE LET m == {k \in 1..Len(devices) : devices[k] = serial}
                         IN  IF m = {} THEN 0
                             ELSE CHOOSE k \in m : \A j \in m : j <= k
              IN  IF dev = 0
                  THEN [dev |-> 0, err |-> "critical error during device scan"]
                  ELSE [dev |-> dev, err |-> "nil"]
    ELSE [dev |-> 0, err |-> "could not find any ST-Link connected to computer"]

\* most probes that match the vendor and product ids
MaxDevices == 3

\* serial numbers of the connected probes
Serials == {"S1", "S2", "S3"}
\* config.serial
ConfigSerials == {"", "S1", "S2"}

DeviceLists == UNION {[1..n -> Serials] : n \in 0..MaxDevices}

SelectDeviceCall ==
    /\ calls = <<>>
    /\ \E devices \in DeviceLists, serial \in ConfigSerials :
         LET r == SelectDevice(devices, serial)
         IN  calls' = Append(calls,
                 Called("NewStLink", "A",
                        [devices |-> devices, serial |-> serial,
                         dev |-> r.dev],
                        r.err, 0))
    /\ UNCHANGED <<flags, openedAp, sent, memVars>>

----------------------------------------------------------------------------
(* Direct mode calls *)

\* most calls of UsbModeEnter and UsbLeaveMode in a run
MaxModeCalls == 2

UsbModeEnterCall ==
    /\ Len(calls) < MaxModeCalls
    /\ \E h \in DOMAIN flags, stMode \in StLinkModes, a \in [1..2 -> Answers] :
         LET r == UsbModeEnter(h, stMode, a)
         IN  /\ Consumed(a, r)
             /\ sent' = sent \o r.sent
             /\ calls' = Append(calls,
                     Called("UsbModeEnter", h, stMode, r.err, Len(r.sent)))
    /\ UNCHANGED <<flags, openedAp, memVars>>

UsbLeaveModeCall ==
    /\ Len(calls) < MaxModeCalls
    /\ \E h \in DOMAIN flags, mode \in StLinkModes, a \in [1..1 -> Answers] :
         LET r == UsbLeaveMode(h, mode, a)
         IN  /\ Consumed(a, r)
             /\ sent' = sent \o r.sent
             /\ calls' = Append(calls,
                     Called("UsbLeaveMode", h, mode, r.err, Len(r.sent)))
    /\ UNCHANGED <<flags, openedAp, memVars>>

----------------------------------------------------------------------------
(* UsbReadMem: a read of any address and length *)

NoRead == [wire |-> <<>>, data |-> <<>>, err |-> "nil"]

\* the second read follows the first unless the first failed: the
\* transfers made and the error returned
ThenRead(r, s) ==
    IF r.err # "nil" THEN [wire |-> r.wire, err |-> r.err]
    ELSE [wire |-> r.wire \o s.wire, err |-> s.err]

\* a[k] is the answer of the probe to the k-th transfer; the lengths are
\* uint16 and the subtractions wrap.  The caller's buffer receives the
\* replies of the transfers, which wire records by address and length.
UsbReadMem(addr, len, a, junk) ==
    LET pre == addr % 4
        prelen == IF pre > 0 THEN 4 - pre ELSE pre
        r1 == IF pre > 0 THEN UsbReadMem8(addr, prelen, a[1], junk)
              ELSE NoRead
        w32len == U16((U16(len - prelen) \div 4) * 4)
        r2 == IF w32len > 0
              THEN UsbReadMem32(addr + prelen, w32len,
                                a[Len(r1.wire) + 1])
              ELSE NoRead
        r12 == ThenRead(r1, r2)
        postlen == U16(U16(len - w32len) - prelen)
        r3 == IF postlen > 0
              THEN UsbReadMem8(addr + U16(prelen + w32len), postlen,
                               a[Len(r12.wire) + 1], junk)
              ELSE NoRead
    IN  ThenRead(r12, r3)

\* most bytes asked of UsbReadMem, and the offsets of its address
MaxReadLen == 6
ReadAddrs == {AddrBase + o : o \in 0..3}
ReadLens == 0..MaxReadLen
ReadAnswers == [1..3 -> {"ok", "fault"}]

UsbReadMemCall ==
    /\ phase = "idle"
    /\ \E addr \in ReadAddrs, len \in ReadLens, a \in ReadAnswers,
          junk \in JunkBytes :
           LET r == UsbReadMem(addr, len, a, junk)
           IN  /\ \A k \in 1..3 : k > Len(r.wire) => a[k] = "ok"
               /\ Direct("UsbReadMem", addr, len, r)
               /\ UNCHANGED <<mem, inbuf, out>>

----------------------------------------------------------------------------
(* Calls that meet one more error than the others *)

\* a probe that answers target-wait until the waits are used up and fails
\* one transfer more than in the other calls
RetryFaults == [wait |-> MaxWait, err |-> MaxErr + 1]

\* one 8-bit chunk, and a head followed by a nested call
RetryInputs ==
    { <<AddrBase, Memory8BitBlock, 1>>, <<AddrBase + 1, Memory16BitBlock, 1>> }

ReadMemRetryCall ==
    /\ phase = "idle"
    /\ \E in \in RetryInputs : Begin("ReadMem", in, RetryFaults, FALSE)
    /\ out' = <<>>
    /\ UNCHANGED otherVars
    /\ UNCHANGED <<version, max_mem_packet, mem, inbuf>>

WriteMemRetryCall ==
    /\ phase = "idle"
    /\ \E in \in RetryInputs :
         /\ Begin("WriteMem", in, RetryFaults, FALSE)
         /\ inbuf' = PatternBuf(in[2] * in[3])
    /\ UNCHANGED otherVars
    /\ UNCHANGED <<version, max_mem_packet, mem, out>>

----------------------------------------------------------------------------
(* PollTrace *)

\* a uint32 as its two 16-bit halves
U32Of(hi, lo) == [hi |-> hi, lo |-> lo]
U32Zero == U32Of(0, 0)
U32Less(x, y) == x.hi < y.hi \/ (x.hi = y.hi /\ x.lo < y.lo)

\* x - 1 in uint32: 0 - 1 wraps to 0xFFFFFFFF
U32Dec(x) ==
    IF x.lo > 0 THEN U32Of(x.hi, x.lo - 1)
    ELSE IF x.hi > 0 THEN U32Of(x.hi - 1, 65535)
    ELSE U32Of(65535, 65535)

\* usbReadTrace(buffer, size): size bytes are asked of the trace endpoint
usbReadTrace(h, size, a) ==
    [sent |-> <<SentCmd(h, <<"TRACE_EP">>, size, a[1])>>,
     err |-> IF a[1] = "ok" THEN "nil" ELSE "error",
     used |-> 1]

\* what PollTrace leaves: the commands, the error and *size
Polled(r, err, size) ==
    [sent |-> r.sent, err |-> err, used |-> r.used, size |-> size]

\* PollTrace(buffer, size) on handle h; bytesAvailable is the 16-bit count
\* in the probe's reply to GET_TRACE_NB
PollTrace(h, size, bytesAvailable, a) ==
    IF flags[h].traceEnabled /\ flags[h].trace
    THEN LET q == usbTransferNoErrCheck(h, <<"DEBUG", "GET_TRACE_NB">>, a)
             avail == U32Of(0, bytesAvailable)
             size1 == IF U32Less(avail, size) THEN avail ELSE U32Dec(size)
         IN  IF q.err # "nil" THEN Polled(q, q.err, size)
             ELSE IF size1 # U32Zero
             THEN LET r == usbReadTrace(h, size1, From(a, q.used + 1))
                  IN  Polled(Do(q, r), r.err, size1)
             ELSE Polled(q, "nil", U32Zero)
    ELSE Polled(Nothing("nil"), "nil", U32Zero)

\* most trace bytes asked for and reported in the small cases
MaxTrace == 4
TraceSizes ==
    {U32Of(0, n) : n \in 0..MaxTrace}
        \cup {U32Of(0, 65535), U32Of(1, 0), U32Of(65535, 65535)}
TraceCounts == (0..MaxTrace) \cup {65535}

PollTraceCall ==
    /\ calls = <<>>
    /\ \E h \in DOMAIN flags, size \in TraceSizes,
          bytesAvailable \in TraceCounts, a \in [1..2 -> {"ok", "error"}] :
         LET r == PollTrace(h, size, bytesAvailable, a)
         IN  /\ Consumed(a, r)
             /\ (r.used = 0 \/ r.sent[1].st # "ok") => bytesAvailable = 0
             /\ sent' = sent \o r.sent
             /\ calls' = Append(calls,
                     Called("PollTrace", h,
                            [sizeIn |-> size, bytesAvailable |-> bytesAvailable,
                             size |-> r.size],
                            r.err, Len(r.sent)))
    /\ UNCHANGED <<flags, openedAp, memVars>>

----------------------------------------------------------------------------
(* Specification *)

\* no memory call has been made
MemIdle ==
    /\ mem = [a \in {} |-> 0]
    /\ stack = <<>>
    /\ wire = <<>>
    /\ sleeps = <<>>
    /\ out = <<>>
    /\ inbuf = <<>>
    /\ result = "none"
    /\ phase = "idle"
    /\ nonOk = NoFaults
    /\ budget = NoFaults
    /\ call = [fn |-> "none", addr |-> 0, unit |-> 0, count |-> 0,
               rt |-> FALSE]

\* no call outside the memory layer has been made
OtherIdle ==
    /\ openedAp = {}
    /\ sent = <<>>
    /\ calls = <<>>

\* an opened handle: the version and the packet limit are fixed by NewStLink
Init ==
    /\ version \in Versions
    /\ max_mem_packet \in MemPacketLimits
    /\ MemIdle
    /\ flags = [h \in Handles |-> [apInit |-> version.stlink > 1]]
    /\ OtherIdle

Next ==
    \/ ReadMemCall
    \/ ReadMemHead
    \/ ReadMemRecurse
    \/ ReadMemBody
    \/ ReadMemReturn
    \/ WriteMemCall
    \/ WriteBackCall
    \/ WriteMemHead
    \/ WriteMemRecurse
    \/ WriteMemBody
    \/ WriteMemReturn
    \/ UsbReadMem16Call
    \/ UsbReadMem32Call
    \/ UsbWriteMem16Call
    \/ UsbWriteMem32Call

Spec == Init /\ [][Next]_vars

\* two probes, each with or without AP_INIT
InitAp ==
    /\ version = [stlink |-> 2, mem16 |-> FALSE]
    /\ max_mem_packet = 1024
    /\ MemIdle
    /\ flags \in [Handles -> [apInit : BOOLEAN]]
    /\ OtherIdle

NextAp ==
    \/ usbOpenApCall
    \/ NewStLinkCall

SpecAp == InitAp /\ [][NextAp]_vars

\* one handle, of any JTAG API
InitReg ==
    /\ version = [stlink |-> 2, mem16 |-> FALSE]
    /\ max_mem_packet = 1024
    /\ MemIdle
    /\ flags \in [{"A"} -> [jtagApi : {jTagApiV1, jTagApiV2, jTagApiV3}]]
    /\ OtherIdle

NextReg ==
    \/ GetRegistersCall
    \/ GetRegisterCall

SpecReg == InitReg /\ [][NextReg]_vars

\* the capability flags that UsbInitMode tests, for the probe generations
InitModeFlags ==
    { [jtagApi |-> jTagApiV1, targetVolt |-> FALSE, jtagSetFreq |-> FALSE],
      [jtagApi |-> jTagApiV2, targetVolt |-> TRUE, jtagSetFreq |-> FALSE],
      [jtagApi |-> jTagApiV2, targetVolt |-> TRUE, jtagSetFreq |-> TRUE],
      [jtagApi |-> jTagApiV3, targetVolt |-> TRUE, jtagSetFreq |-> TRUE] }

InitMode ==
    /\ version = [stlink |-> 2, mem16 |-> FALSE]
    /\ max_mem_packet = 1024
    /\ MemIdle
    /\ flags \in [{"A"} -> InitModeFlags]
    /\ OtherIdle

NextMode == UsbInitModeCall

SpecMode == InitMode /\ [][NextMode]_vars

\* one handle, with or without TRACE
InitTrace ==
    /\ version = [stlink |-> 2, mem16 |-> FALSE]
    /\ max_mem_packet = 1024
    /\ MemIdle
    /\ flags \in [{"A"} -> [trace : BOOLEAN]]
    /\ OtherIdle

NextTrace == ConfigTraceCall

SpecTrace == InitTrace /\ [][NextTrace]_vars

\* no handle yet
InitOpen ==
    /\ version = [stlink |-> 2, mem16 |-> FALSE]
    /\ max_mem_packet = 1024
    /\ MemIdle
    /\ flags = [h \in {"A"} |-> [apInit |-> TRUE]]
    /\ OtherIdle

NextOpen == SelectDeviceCall

SpecOpen == InitOpen /\ [][NextOpen]_vars

NextEnter ==
    \/ UsbModeEnterCall
    \/ UsbLeaveModeCall

\* one handle, of any JTAG API
SpecEnter == InitReg /\ [][NextEnter]_vars

NextRead == UsbReadMemCall

\* an opened handle makes one call of UsbReadMem
SpecRead == Init /\ [][NextRead]_vars

NextRetry ==
    \/ ReadMemRetryCall
    \/ ReadMemHead
    \/ ReadMemRecurse
    \/ ReadMemBody
    \/ ReadMemReturn
    \/ WriteMemRetryCall
    \/ WriteMemHead
    \/ WriteMemRecurse
    \/ WriteMemBody
    \/ WriteMemReturn

\* an opened handle makes one call whose transfers may fail more than once
SpecRetry == Init /\ [][NextRetry]_vars

\* one handle, with or without TRACE, its trace enabled or not
InitPoll ==
    /\ version = [stlink |-> 2, mem16 |-> FALSE]
    /\ max_mem_packet = 1024
    /\ MemIdle
    /\ flags \in [{"A"} -> [trace : BOOLEAN, traceEnabled : BOOLEAN]]
    /\ OtherIdle

NextPoll == PollTraceCall

SpecPoll == InitPoll /\ [][NextPoll]_vars

----------------------------------------------------------------------------
(* Properties *)

MemCall == call.fn \in {"ReadMem", "WriteMem"}
ReadCall == call.fn = "ReadMem"
WriteCall == call.fn = "WriteMem"
Done == phase = "done"
TotalBytes == call.count * call.unit

AllOk == \A i \in 1..Len(wire) : wire[i].st = "ok"

\* the commands of the call without the answers: <<cmd, addr, len>>
Shape == [i \in 1..Len(wire) |-> <<wire[i].cmd, wire[i].addr, wire[i].len>>]

\* every transfer starts where the one before it ended, the first at a
Contiguous(a) ==
    \A i \in 1..Len(wire) :
        wire[i].addr = IF i = 1 THEN a ELSE wire[i-1].addr + wire[i-1].len
WireEnd(a) ==
    IF wire = <<>> THEN a ELSE wire[Len(wire)].addr + wire[Len(wire)].len

Page(a) == a \div max_mem_packet
CrossesPage(w) == w.len > 0 /\ Page(w.addr) # Page(w.addr + w.len - 1)

\* C1: with every transfer answered OK, the transfers of ReadMem tile
\* [addr, addr+N) once, in increasing address order, without gap or overlap:
\* each starts where the previous one ended, the first at addr, and when
\* the call returns the last one ends at addr+N.
C1_ReadTiles ==
    (ReadCall /\ AllOk) =>
        /\ Contiguous(call.addr)
        /\ \A i \in 1..Len(wire) : wire[i].cmd \in ReadCmds
        /\ WireEnd(call.addr) <= call.addr + TotalBytes
        /\ Done => (result = "nil" /\ WireEnd(call.addr) = call.addr + TotalBytes)

\* a 32-bit read from an unaligned address over a page end has returned:
\* head, aligned chunk up to the page end, and more behind it
C1_Witness ==
    /\ ReadCall /\ Done /\ AllOk /\ result = "nil"
    /\ call.unit = Memory32BitBlock /\ call.addr % 4 # 0
    /\ Len(wire) >= 3
    /\ \E i \in 1..Len(wire) : wire[i].cmd = debugReadMem32Bit /\ wire[i].len > 0

ExpectedOut == [i \in 1..TotalBytes |-> MemAt(call.addr + i - 1)]

\* C2: when ReadMem returns success it has appended exactly count*unit
\* bytes to out, byte i being the target byte at addr+i, also when a chunk
\* was answered with target-wait and re-submitted.
C2_ReadDelivers ==
    (ReadCall /\ Done /\ result = "nil") => out = ExpectedOut

\* C3: ReadMem followed by WriteMem of the buffer that was read leaves the
\* target memory as it was, and a WriteMem that returns success has written
\* buffer byte i to addr+i.
C3_RoundTrip ==
    (WriteCall /\ Done /\ result = "nil" /\ AllOk) =>
        /\ \A i \in 1..TotalBytes : MemAt(call.addr + i - 1) = inbuf[i]
        /\ call.rt => \A a \in DOMAIN mem : mem[a] = InitByte(a)

\* C4: no memory transfer of ReadMem or WriteMem is longer than
\* max_mem_packet.
C4_PacketLimit ==
    MemCall => \A i \in 1..Len(wire) : wire[i].len <= max_mem_packet

\* a call for more than max_mem_packet bytes has issued a transfer of
\* exactly max_mem_packet bytes
C4_Witness ==
    /\ MemCall /\ TotalBytes > max_mem_packet
    /\ \E i \in 1..Len(wire) : wire[i].len = max_mem_packet

\* C5 as stated: for every unit, no transfer of ReadMem or WriteMem with
\* len > 0 crosses an auto-increment page boundary.
C5_NoPageCrossAnyUnit ==
    MemCall => \A i \in 1..Len(wire) : ~CrossesPage(wire[i])

\* C5 amended: in a call that runs at unit 2 or 4 (after the MEM16
\* downgrade) no transfer with len > 0 crosses an auto-increment page
\* boundary; a call that runs at unit 1 is cut by the probe block only.
C5_NoPageCross ==
    (MemCall /\ EffectiveBits(call.unit) # Memory8BitBlock) =>
        \A i \in 1..Len(wire) : ~CrossesPage(wire[i])

\* a call at unit 2 or 4 whose range spans a page end has transferred
\* bytes on both sides of it
C5_Witness ==
    /\ MemCall /\ Done /\ result = "nil"
    /\ EffectiveBits(call.unit) # Memory8BitBlock
    /\ Page(call.addr) # Page(call.addr + TotalBytes - 1)
    /\ \E i, j \in 1..Len(wire) :
          /\ wire[i].len > 0 /\ wire[j].len > 0
          /\ Page(wire[i].addr) # Page(wire[j].addr)

Cmds16 == {debugApiV2ReadMem16Bit, debugApiV2WriteMem16Bit}
Cmds32 == {debugReadMem32Bit, debugWriteMem32Bit}
Cmds8 == {debugReadMem8Bit, debugWriteMem8Bit}
Direct16 == call.fn \in {"UsbReadMem16", "UsbWriteMem16"}
Direct32 == call.fn \in {"UsbReadMem32", "UsbWriteMem32"}

\* C6: without MEM16 no 16-bit memory command reaches the wire: ReadMem and
\* WriteMem at unit 2 run as unit 1 (8-bit commands only, success when every
\* transfer is answered OK), and UsbReadMem16 / UsbWriteMem16 return an
\* error with nothing submitted.
C6_NoMem16 ==
    ~Mem16Supported =>
        /\ \A i \in 1..Len(wire) : wire[i].cmd \notin Cmds16
        /\ (Direct16 /\ Done) => (result = "notfound" /\ wire = <<>>)
        /\ (MemCall /\ call.unit = Memory16BitBlock) =>
              /\ \A i \in 1..Len(stack) : stack[i].bitLength = Memory8BitBlock
              /\ \A i \in 1..Len(wire) : wire[i].cmd \in Cmds8
              /\ (Done /\ AllOk) => result = "nil"

\* a unit-2 call on a probe without MEM16 has returned success after
\* transferring its bytes
C6_Witness ==
    /\ ~Mem16Supported /\ MemCall /\ call.unit = Memory16BitBlock
    /\ Done /\ result = "nil" /\ wire # <<>>

----------------------------------------------------------------------------
(* The scenarios of the specification *)

ReadScenario(addr, unit, count) ==
    /\ ReadCall /\ Done /\ AllOk
    /\ call.addr = addr /\ call.unit = unit /\ call.count = count
    /\ version.stlink = 2 /\ max_mem_packet = 1024

Unaligned32 == ReadScenario(AddrBase + 1, Memory32BitBlock, 10)

\* C8 as stated: read_mem(0x20000001, 4, 10) on a V2 probe with
\* mem_packet_limit 1024 issues READ_MEM_8BIT(0x20000001, 3),
\* READ_MEM_32BIT(0x20000004, 36), READ_MEM_8BIT(0x20000028, 1).
C8_HeadWordsTail ==
    Unaligned32 =>
        Shape = << <<debugReadMem8Bit, AddrBase + 1, 3>>,
                   <<debugReadMem32Bit, AddrBase + 4, 36>>,
                   <<debugReadMem8Bit, AddrBase + 40, 1>> >>

\* C8 amended: the call issues READ_MEM_8BIT(0x20000001, 3) and then
\* READ_MEM_8BIT(0x20000004, 37): the 37 bytes behind the head are not a
\* multiple of 4, so the whole chunk is read at unit 1.
C8_HeadThenBytes ==
    Unaligned32 =>
        Shape = << <<debugReadMem8Bit, AddrBase + 1, 3>>,
                   <<debugReadMem8Bit, AddrBase + 4, 37>> >>

C8_Witness == Unaligned32 /\ result = "nil" /\ Len(out) = 40

NearPageEnd == ReadScenario(AddrBase + 992, Memory32BitBlock, 16)

\* C9 as stated: read_mem(0x200003E0, 4, 16) with mem_packet_limit 1024
\* issues a single memory transfer.
C9_SingleTransfer == NearPageEnd => Len(wire) = 1

\* C9 amended: the call issues two transfers, split at the page end
\* 0x20000400: READ_MEM_32BIT(0x200003E0, 32), READ_MEM_32BIT(0x20000400, 32).
C9_SplitAtPage ==
    NearPageEnd =>
        Shape = << <<debugReadMem32Bit, AddrBase + 992, 32>>,
                   <<debugReadMem32Bit, AddrBase + 1024, 32>> >>

C9_Witness == NearPageEnd /\ result = "nil" /\ Len(out) = 64

WaitSleeps == SelectSeq(sleeps, LAMBDA s : s.after = usbErrorWait)

\* C10: in a call of ReadMem or WriteMem the k-th retry (k = 0, 1, ...),
\* when it follows a target-wait, sleeps exactly 2^k ms, and the call makes
\* at most maximumWaitRetries retries that follow a target-wait.
C10_Backoff ==
    MemCall =>
        /\ Len(WaitSleeps) <= maximumWaitRetries
        /\ \A i \in 1..Len(sleeps) :
              sleeps[i].after = usbErrorWait => sleeps[i].ms = 2^(i - 1)

----------------------------------------------------------------------------
(* Error handling of the chunk loops *)

LastSt == wire[Len(wire)].st

\* C11: once a transfer of ReadMem has been answered FAULT the call only
\* returns: every further step leaves the wire and the sleeps as they are,
\* and the call ends with the target-fault error.
C11_FaultReturns ==
    [][(ReadCall /\ phase = "run" /\ wire # <<>> /\ LastSt = "fault") =>
          /\ wire' = wire
          /\ sleeps' = sleeps
          /\ phase' = "done" => result' = "fault"]_vars

\* a read has returned the fault of a transfer that followed retries, and
\* one the fault of a nested call
C11_Witness ==
    /\ ReadCall /\ Done /\ result = "fault" /\ LastSt = "fault"
    /\ Len(sleeps) >= 2

\* C12: when the probe answers target-wait until the retries are used up,
\* ReadMem / WriteMem do not return the target-wait error itself.
C12_WaitNeverEscapes ==
    (MemCall /\ Done) => result # usbErrorWait

\* C13: a USB error during a chunk of ReadMem or WriteMem ends the call:
\* the failed transfer is the last command on the wire, and the call
\* returns an error.
C13_UsbErrorNotRetried ==
    MemCall =>
        /\ \A i \in 1..Len(wire) : USBERR(wire[i].st) => i = Len(wire)
        /\ (Done /\ wire # <<>> /\ USBERR(LastSt)) =>
              result \in {"fail", "xfer", "io"}

----------------------------------------------------------------------------
(* Access-port initialisation *)

\* call i is usbOpenAp(apsel) with apsel in range on a probe with AP_INIT
OpenApAt(i) ==
    /\ calls[i].fn = "usbOpenAp"
    /\ calls[i].arg <= debugAccessPortSelectionMaximum
    /\ flags[calls[i].h].apInit
\* call i submitted INIT_AP and the probe answered OK
InitApDone(i) == calls[i].n = 1 /\ calls[i].err = "nil"

\* C14 as stated: the first usbOpenAp(apsel) of a handle and any later one
\* of that handle with the same apsel submit exactly one INIT_AP in total.
C14_ExactlyOneInitAp ==
    \A i, j \in 1..Len(calls) :
        ( /\ i < j /\ OpenApAt(i) /\ OpenApAt(j)
          /\ calls[i].h = calls[j].h /\ calls[i].arg = calls[j].arg
          /\ \A k \in 1..(i - 1) :
                ~(OpenApAt(k) /\ calls[k].h = calls[i].h
                              /\ calls[k].arg = calls[i].arg) )
        => calls[i].n + calls[j].n = 1

\* C14 amended: usbOpenAp(apsel) submits INIT_AP exactly when no earlier
\* usbOpenAp(apsel) of the process submitted it with success; so after one
\* successful INIT_AP every later call with that apsel submits nothing and
\* returns success, whatever was opened in between.
C14_OpenApIdempotent ==
    \A j \in 1..Len(calls) :
        OpenApAt(j) =>
            /\ calls[j].n = 1 <=>
                  ~\E i \in 1..(j - 1) :
                      OpenApAt(i) /\ calls[i].arg = calls[j].arg /\ InitApDone(i)
            /\ calls[j].n = 0 => calls[j].err = "nil"

\* a handle opened a port, then another port, then the first port again
C14_Witness ==
    /\ Len(calls) = 3
    /\ OpenApAt(1) /\ OpenApAt(2) /\ OpenApAt(3)
    /\ calls[1].h = calls[3].h /\ calls[1].arg = calls[3].arg
    /\ calls[2].arg # calls[1].arg
    /\ InitApDone(1) /\ InitApDone(2) /\ calls[3].n = 0

\* C15: on a probe without AP_INIT the access-port initialisation returns
\* success and submits nothing, in usbOpenAp and in NewStLink.
C15_NoApInitNoop ==
    \A i \in 1..Len(calls) :
        ~flags[calls[i].h].apInit => (calls[i].err = "nil" /\ calls[i].n = 0)

\* C16: every access port that usbOpenAp reported open on a handle has
\* been initialised by an INIT_AP that this handle submitted.
C16_PerHandle ==
    \A i \in 1..Len(calls) :
        (OpenApAt(i) /\ calls[i].err = "nil") =>
            \E k \in 1..Len(sent) :
                /\ sent[k].h = calls[i].h
                /\ sent[k].cmd = debugApiV2InitAccessPort
                /\ sent[k].arg = calls[i].arg /\ sent[k].st = "ok"

----------------------------------------------------------------------------
(* Register reads *)

RECURSIVE SentBefore(_)
\* the number of commands submitted by the calls before call i
SentBefore(i) == IF i = 1 THEN 0 ELSE SentBefore(i - 1) + calls[i - 1].n

\* the commands that call i submitted
CallCmds(i) == SubSeq(sent, SentBefore(i) + 1, SentBefore(i) + calls[i].n)

RegCallAt(i) == calls[i].fn \in {"GetRegisters", "GetRegister"}

\* C17: the last command of every call of GetRegisters and of GetRegister
\* is the leave-mode command {DEBUG, EXIT}.
C17_AlwaysLeaves ==
    \A i \in 1..Len(calls) :
        RegCallAt(i) =>
            /\ calls[i].n > 0
            /\ CallCmds(i)[calls[i].n].cmd = <<"DEBUG", "EXIT">>

----------------------------------------------------------------------------
(* The init sequence *)

\* the step of the init sequence that a command belongs to: "Q" the
\* current-mode query, "L" leave-mode, "V" the target-voltage read, "S" the
\* speed setting, "R" the SRST assert, "E" the mode entry
Kind(c) ==
    CASE c.cmd = <<cmdGetCurrentMode>> -> "Q"
      [] c.cmd = <<cmdGetTargetVoltage>> -> "V"
      [] c.cmd = <<"DEBUG", "DRIVE_NRST">> -> "R"
      [] c.cmd \in {<<"DEBUG", "SWD_SET_FREQ">>, <<"DEBUG", "SET_COM_FREQ">>,
                    <<"DEBUG", "GET_COM_FREQ">>} -> "S"
      [] c.cmd \in {<<"DEBUG", "EXIT">>, <<"SWIM", "EXIT">>,
                    <<"DFU", "EXIT">>} -> "L"
      [] OTHER -> "E"

\* the order of the steps, and the most commands of each step
Stages == <<"Q", "L", "Q", "V", "S", "R", "E", "R", "Q">>
StageMax == <<1, 1, 1, 1, 3, 1, 2, 1, 1>>

RECURSIVE InOrder(_, _, _, _)
\* the commands cmds[k..] fit the stages s.., c commands of stage s taken
InOrder(cmds, k, s, c) ==
    IF k > Len(cmds) THEN TRUE
    ELSE IF s > Len(Stages) THEN FALSE
    ELSE IF Kind(cmds[k]) = Stages[s] /\ c < StageMax[s]
    THEN InOrder(cmds, k + 1, s, c + 1)
    ELSE InOrder(cmds, k, s + 1, 0)

InitCallAt(i) == calls[i].fn = "UsbInitMode"
Has(cmds, kind) == \E k \in 1..Len(cmds) : Kind(cmds[k]) = kind
\* the positions of the commands of a kind
At(cmds, kind) == {k \in 1..Len(cmds) : Kind(cmds[k]) = kind}
\* the first query was answered, by mode
FirstMode(cmds) == cmds[1].arg
Queried(cmds, n) ==
    /\ Cardinality(At(cmds, "Q")) >= n
    /\ \A k \in At(cmds, "Q") :
          Cardinality({j \in At(cmds, "Q") : j <= k}) <= n => cmds[k].st = "ok"
\* the mode that the second query reported
SecondMode(cmds) ==
    LET k == CHOOSE k \in At(cmds, "Q") : \E j \in At(cmds, "Q") : j < k
    IN  cmds[k].arg

\* C18 as stated: the commands of UsbInitMode come in the order of the
\* steps; leave-mode is sent if and only if the reported mode is not
\* Unknown, and the target voltage is read if the mode is not DFU.
C18_InitOrderAsStated ==
    \A i \in 1..Len(calls) :
        InitCallAt(i) =>
            LET cmds == CallCmds(i)
            IN  /\ InOrder(cmds, 1, 1, 0)
                /\ Queried(cmds, 1) =>
                      (Has(cmds, "L") <=>
                          ModeOfByte(FirstMode(cmds)) # StLinkModeUnknown)
                /\ Queried(cmds, 2) =>
                      (SecondMode(cmds) # deviceModeDFU => Has(cmds, "V"))

\* C18 amended: the commands of UsbInitMode come in the order of the steps;
\* leave-mode is sent if and only if the reported mode is DFU, debug or
\* SWIM (not for mass storage, which cannot be left), and it is the exit
\* of that mode; the target voltage is read if and only if the second query
\* did not report DFU and the probe has TARGET_VOLT; SRST is asserted
\* before the mode entry if and only if connect-under-reset is asked and
\* the desired mode is not SWIM; the mode entry comes after two answered
\* queries; a failed mode entry is the last command of the run, and a run
\* that returns success ends with a query after a successful mode entry.
C18_InitOrder ==
    \A i \in 1..Len(calls) :
        InitCallAt(i) =>
            LET cmds == CallCmds(i)
                in == calls[i].arg
                e == At(cmds, "E")
            IN  /\ InOrder(cmds, 1, 1, 0)
                /\ Queried(cmds, 1) =>
                      /\ Has(cmds, "L") <=>
                            ModeOfByte(FirstMode(cmds)) \in
                              {StLinkModeDfu, StLinkModeDebugSwd,
                               StLinkModeDebugSwim}
                      /\ Has(cmds, "L") =>
                            cmds[2] = UsbLeaveMode(calls[i].h,
                                        ModeOfByte(FirstMode(cmds)),
                                        <<cmds[2].st>>).sent[1]
                /\ Queried(cmds, 2) =>
                      (Has(cmds, "V") <=>
                          (SecondMode(cmds) # deviceModeDFU
                           /\ flags[calls[i].h].targetVolt))
                /\ e # {} =>
                      /\ Queried(cmds, 2)
                      /\ (\E k \in At(cmds, "R") : \A j \in e : k < j) <=>
                            (in.connectUnderReset
                             /\ in.stMode # StLinkModeDebugSwim)
                      /\ \A k \in e :
                            (cmds[k].st # "ok" /\ \A j \in e : j <= k) =>
                                (k = Len(cmds) /\ calls[i].err # "nil")
                /\ calls[i].err = "nil" =>
                      /\ Kind(cmds[Len(cmds)]) = "Q"
                      /\ \E k \in e : cmds[k].st = "ok"
                      /\ in.connectUnderReset =>
                            \E k \in At(cmds, "R") : \A j \in e : j < k

\* a run under reset from the debug mode into SWD has returned success:
\* query, leave, query, voltage, speed, SRST, entry, SRST, query
C18_Witness ==
    /\ Len(calls) = 1 /\ InitCallAt(1) /\ calls[1].err = "nil"
    /\ calls[1].arg.connectUnderReset
    /\ [k \in 1..Len(sent) |-> Kind(sent[k])] =
          <<"Q", "L", "Q", "V", "S", "R", "E", "R", "Q">>

----------------------------------------------------------------------------
(* Trace prescaler *)

\* call i is ConfigTrace(enabled = true) past its capability and frequency
\* checks
TraceOnAt(i) ==
    /\ calls[i].fn = "ConfigTrace" /\ calls[i].arg.enabled
    /\ flags[calls[i].h].trace
    /\ calls[i].arg.tpiuProtocol = TpuiPinProtocolAsyncUart
    /\ calls[i].arg.traceFreqIn <= traceMaxHz

\* ceil(traceClkInFreq / traceFreq) of call i
Ceil(i) ==
    LET clk == calls[i].arg.traceClkInFreq
        f == calls[i].arg.traceFreq
    IN  (clk \div f) + (IF clk % f > 0 THEN 1 ELSE 0)

StartsTrace(i) ==
    \E k \in 1..Len(CallCmds(i)) :
        CallCmds(i)[k].cmd = <<"DEBUG", "START_TRACE">>

\* C19: ConfigTrace(enabled = true) returns an error without starting the
\* trace when ceil(traceClkInFreq / traceFreq) is above 0xFFFF, and
\* otherwise writes that value to the caller's preScaler.
C19_Prescaler ==
    \A i \in 1..Len(calls) :
        TraceOnAt(i) =>
            IF Ceil(i) > tpuiAcprMaxSwoScaler
            THEN calls[i].err # "nil" /\ ~StartsTrace(i)
            ELSE calls[i].arg.preScaler = Ceil(i)

----------------------------------------------------------------------------
(* Single-byte reads *)

SingleByteRead(w) == w.cmd = debugReadMem8Bit /\ w.len = 1

\* C20: in a ReadMem whose transfers are all answered OK, a 1-byte 8-bit
\* read adds exactly 1 byte to the caller's buffer: the buffer holds as
\* many bytes as the transfers asked for.
C20_PadByteDiscarded ==
    (ReadCall /\ AllOk /\ \E i \in 1..Len(wire) : SingleByteRead(wire[i])) =>
        Len(out) = WireEnd(call.addr) - call.addr

----------------------------------------------------------------------------
(* Probe selection by serial number *)

\* C21: with several matching probes and no serial the selection fails;
\* with a serial the selected probe has that serial number, whatever the
\* number of matching probes, and the selection fails when none has it.
C21_SerialSelects ==
    \A i \in 1..Len(calls) :
        LET in == calls[i].arg
        IN  /\ (in.serial = "" /\ Len(in.devices) > 1) => calls[i].err # "nil"
            /\ in.serial # "" =>
                  /\ calls[i].err = "nil" => in.devices[in.dev] = in.serial
                  /\ (\A k \in 1..Len(in.devices) : in.devices[k] # in.serial)
                        => calls[i].err # "nil"

----------------------------------------------------------------------------
(* Command framing of the mode calls *)

ModeCallAt(i) == calls[i].fn \in {"UsbModeEnter", "UsbLeaveMode"}

\* C22: a call of UsbModeEnter or UsbLeaveMode either returns an error
\* without a transfer or submits commands that begin with a group byte and
\* a subcommand byte; DFU, Mass and Unknown cannot be entered and Mass
\* cannot be left.
C22_CommandFramed ==
    \A i \in 1..Len(calls) :
        ModeCallAt(i) =>
            /\ \/ calls[i].n = 0 /\ calls[i].err # "nil"
               \/ /\ calls[i].n > 0
                  /\ \A k \in 1..calls[i].n : Len(CallCmds(i)[k].cmd) >= 2
            /\ ( \/ /\ calls[i].fn = "UsbModeEnter"
                    /\ calls[i].arg \in {StLinkModeDfu, StLinkModeMass,
                                        StLinkModeUnknown}
                 \/ /\ calls[i].fn = "UsbLeaveMode"
                    /\ calls[i].arg = StLinkModeMass )
               => (calls[i].n = 0 /\ calls[i].err # "nil")

----------------------------------------------------------------------------
(* UsbReadMem *)

\* C23: with every transfer answered OK, UsbReadMem(addr, len) asks the
\* target for exactly len bytes: its transfers cover [addr, addr+len) once,
\* the first at addr, each where the one before it ended, the last ending
\* at addr+len.
C23_ReadsLenBytes ==
    (call.fn = "UsbReadMem" /\ Done /\ AllOk) =>
        /\ result = "nil"
        /\ Contiguous(call.addr)
        /\ WireEnd(call.addr) = call.addr + call.count
        /\ \A i \in 1..Len(wire) : wire[i].len <= call.count

----------------------------------------------------------------------------
(* Lengths of the memory commands *)

\* C24: every memory command that ReadMem or WriteMem submits carries at
\* least one byte, also when an unaligned head takes all the bytes left
\* before the page end.
C24_NoEmptyCommand ==
    MemCall => \A i \in 1..Len(wire) : wire[i].len >= 1

----------------------------------------------------------------------------
(* The probe's mode across the register calls *)

\* the mode of the probe after a command that it answered with st: a debug
\* entry puts it in debug mode, {DEBUG, EXIT} takes it out
ProbeAfter(m, c) ==
    IF c.st # "ok" \/ Len(c.cmd) < 2 \/ c.cmd[1] # "DEBUG" THEN m
    ELSE IF c.cmd[2] \in {"ENTER_V1", "ENTER_V2"} THEN "debug"
    ELSE IF c.cmd[2] = "EXIT" THEN "idle"
    ELSE m

RECURSIVE ProbeMode(_)
\* the mode of the probe after the first k commands of the run; the handle
\* was put in debug mode before the run
ProbeMode(k) ==
    IF k = 0 THEN "debug" ELSE ProbeAfter(ProbeMode(k - 1), sent[k])

\* C25: a call of GetRegisters or GetRegister that starts with the probe in
\* debug mode returns with the probe in debug mode.
C25_ModeKept ==
    \A i \in 1..Len(calls) :
        (RegCallAt(i) /\ ProbeMode(SentBefore(i)) = "debug")
            => ProbeMode(SentBefore(i) + calls[i].n) = "debug"

----------------------------------------------------------------------------
(* The retry count *)

\* C26: in a call of ReadMem or WriteMem, whatever the probe answers, every
\* backoff sleep 1 << retries is taken with a retry count of at most
\* maximumWaitRetries, so that the retries of a call are bounded.
C26_RetriesBounded ==
    MemCall => \A i \in 1..Len(sleeps) : sleeps[i].k <= maximumWaitRetries

----------------------------------------------------------------------------
(* PollTrace *)

U32Leq(x, y) == ~U32Less(y, x)

PollAt(i) == calls[i].fn = "PollTrace"

\* the probe reported a count of available bytes to call i
Reported(i) == calls[i].n > 0 /\ CallCmds(i)[1].st = "ok"

\* C27: when the trace is not enabled or the probe has no TRACE, PollTrace
\* submits nothing and leaves 0 in *size; when the probe reports
\* bytesAvailable, the value left in *size is at most the caller's size and
\* at most bytesAvailable, and a trace read asks for exactly that many bytes.
C27_PollWithinBounds ==
    \A i \in 1..Len(calls) :
        PollAt(i) =>
            LET in == calls[i].arg
                h == calls[i].h
            IN  /\ ~(flags[h].traceEnabled /\ flags[h].trace)
                      => (calls[i].n = 0 /\ in.size = U32Zero)
                /\ Reported(i) =>
                      /\ U32Leq(in.size, in.sizeIn)
                      /\ U32Leq(in.size, U32Of(0, in.bytesAvailable))
                      /\ \A k \in 2..calls[i].n :
                            CallCmds(i)[k].arg = in.size

====
